---- MODULE Spec2Model ----
(***************************************************************************)
(* json2pg: src/cmd/json2pg/main.go.                                       *)
(*                                                                         *)
(* The file holds two revisions of main.go one after the other; the model  *)
(* follows the later one (lines 120-277), the one with the schema lookup   *)
(* columns().                                                              *)
(*                                                                         *)
(* The program is one sequential run of main().  pc is its position; one   *)
(* action is one stretch of main() between two calls to the outside world  *)
(* (database, file, process exit).                                         *)
(*                                                                         *)
(* Decoded JSON values (Go interface{} after json.Decode) are records with *)
(* a field kind:  null | bool | number | string | array | object.  A       *)
(* number is a float64 carried in tenths (15 is 1.5).  A bound parameter   *)
(* may also be of kind time (a time.Time, whole seconds and nanoseconds).  *)
(***************************************************************************)
EXTENDS Integers, Sequences, FiniteSets, TLC

VARIABLES
    pc,                \* position in main()
    databaseName,      \* flag -d
    tableName,         \* flag -t
    fileName,          \* flag -f
    ignoreErrors,      \* flag -ignore-errors
    encodeFaults,      \* environment: Encode calls that may still return an error
    connAcquired,      \* number of successful pgx.Connect calls
    connReleased,      \* pg.Close() has run
    fileAcquired,      \* number of successful os.Open calls
    fileReleased,      \* file.Close() has run
    nRows,             \* len(inputData)
    schemaQueries,     \* number of pg.Query calls issued by columns()
    cols,              \* map column name -> data type
    rowID,             \* index of the range loop over inputData
    row,               \* inputData[rowID], the record being processed
    pending,           \* keys of row the inner range loop has not visited yet
    i,                 \* placeholder counter of the row
    valuePlaceholders, \* placeholder text of the row
    fields,            \* quoted column names of the row
    vals,              \* bound parameter values of the row
    q,                 \* statement text of the row
    execLog,           \* one entry per pg.Exec call, in call order
    errors,            \* run-level error list
    totalInserted,     \* sum of RowsAffected()
    stdout,            \* lines printed to standard output
    log,               \* the message of log.Fatal, "" while none was written
    exitCode           \* process exit status once pc = "exited"

vars == <<pc, databaseName, tableName, fileName, ignoreErrors, encodeFaults,
          connAcquired, connReleased, fileAcquired, fileReleased, nRows,
          schemaQueries, cols, rowID, row, pending, i, valuePlaceholders,
          fields, vals, q, execLog, errors, totalInserted, stdout, log,
          exitCode>>

flagVars == <<databaseName, tableName, fileName, ignoreErrors>>
resVars  == <<connAcquired, connReleased, fileAcquired, fileReleased>>
rowVars  == <<row, pending, i, valuePlaceholders, fields, vals, q>>
runVars  == <<execLog, errors, totalInserted>>

(***************************************************************************)
(* Bounds and input domains.                                               *)
(***************************************************************************)
MaxRows == 2

MaxPartial == 1

MaxEncodeFaults == 1

Keys == {"id", "ts", "data"}

Null      == [kind |-> "null"]
Bool(b)   == [kind |-> "bool", b |-> b]
Number(t) == [kind |-> "number", tenths |-> t]
String(s) == [kind |-> "string", s |-> s]
Array(e)  == [kind |-> "array", elems |-> e]
Object(m) == [kind |-> "object", members |-> m]
Time(sec, nsec) == [kind |-> "time", sec |-> sec, nsec |-> nsec]

\* order in which encoding/json writes the members of an object (sorted keys)
MemberOrder == <<"a", "b", "c">>

SampleObject == Object([a |-> Number(-15), b |-> String("x\"y")])

Values ==
    { Null, Bool(TRUE), Number(15), Number(-15), String("x"),
      Array(<<Number(20), Null>>), SampleObject }

\* every record over Keys: a function from a subset of Keys to Values
Records == UNION { [ks -> Values] : ks \in SUBSET Keys }

\* the tables the catalog may describe: column name -> data_type
NoColumns == [k \in {} |-> ""]

Schemas ==
    { [id |-> "integer", ts |-> "timestamp without time zone", data |-> "jsonb"],
      [ts |-> "time without time zone", data |-> "timestamp with time zone"],
      NoColumns }

(***************************************************************************)
(* Library functions used by main().                                       *)
(***************************************************************************)
DigitChars == <<"0", "1", "2", "3", "4", "5", "6", "7", "8", "9">>

\* strconv.Itoa, for n >= 0 and n < 0
RECURSIVE ItoaNat(_)
ItoaNat(n) ==
    IF n < 10 THEN DigitChars[n + 1]
    ELSE ItoaNat(n \div 10) \o DigitChars[(n % 10) + 1]

Itoa(n) == IF n < 0 THEN "-" \o ItoaNat(-n) ELSE ItoaNat(n)

\* strings.Contains
Contains(s, substr) ==
    \E p \in 1..(Len(s) - Len(substr) + 1) :
        SubSeq(s, p, p + Len(substr) - 1) = substr

\* strings.Join
RECURSIVE Join(_, _)
Join(elems, sep) ==
    IF Len(elems) = 0 THEN ""
    ELSE IF Len(elems) = 1 THEN elems[1]
    ELSE elems[1] \o sep \o Join(Tail(elems), sep)

\* a conversion that rounds down instead
Int64Floor(tenths) == tenths \div 10

\* int64(v.(float64)): Go truncates toward zero
Int64OfFloat(tenths) ==
    IF tenths >= 0 THEN tenths \div 10 ELSE -((-tenths) \div 10)

\* time.Unix(sec, 0)
TimeUnix(sec) == Time(sec, 0)

\* `"` + k + `"`
QuoteIdent(k) == "\"" \o k \o "\""

(***************************************************************************)
(* encoding/json: json.NewEncoder(b).Encode(v) writes the compact JSON     *)
(* text of v, object members in sorted key order, and a newline.           *)
(***************************************************************************)
\* a float64 in the shortest decimal form: 1.5, -1.5, 2
FormatFloat(tenths) ==
    LET mag == IF tenths < 0 THEN -tenths ELSE tenths
    IN  (IF tenths < 0 THEN "-" ELSE "")
        \o ItoaNat(mag \div 10)
        \o (IF mag % 10 = 0 THEN "" ELSE "." \o DigitChars[(mag % 10) + 1])

\* the body of a JSON string literal: quote and backslash are escaped
RECURSIVE EscapeString(_)
EscapeString(s) ==
    IF Len(s) = 0 THEN ""
    ELSE LET c == SubSeq(s, 1, 1)
         IN  (IF c = "\"" THEN "\\\"" ELSE IF c = "\\" THEN "\\\\" ELSE c)
             \o EscapeString(SubSeq(s, 2, Len(s)))

RECURSIVE EncodeValue(_)
EncodeValue(v) ==
    CASE v.kind = "null"   -> "null"
      [] v.kind = "bool"   -> (IF v.b THEN "true" ELSE "false")
      [] v.kind = "number" -> FormatFloat(v.tenths)
      [] v.kind = "string" -> "\"" \o EscapeString(v.s) \o "\""
      [] v.kind = "array"  ->
            "[" \o Join([j \in 1..Len(v.elems) |-> EncodeValue(v.elems[j])], ",") \o "]"
      [] v.kind = "object" ->
            LET present == SelectSeq(MemberOrder, LAMBDA k : k \in DOMAIN v.members)
            IN  "{" \o Join([j \in 1..Len(present) |->
                                "\"" \o EscapeString(present[j]) \o "\":"
                                \o EncodeValue(v.members[present[j]])], ",")
                \o "}"

\* what Encode leaves in the buffer when it succeeds
EncodeJSON(v) == EncodeValue(v) \o "\n"

\* what the buffer may hold when Encode returned an error: a proper prefix of
\* the text, the empty one included, of at most MaxPartial characters
PartialWrites(v) ==
    { SubSeq(EncodeJSON(v), 1, n) :
        n \in 0..(IF MaxPartial < Len(EncodeJSON(v)) THEN MaxPartial
                  ELSE Len(EncodeJSON(v)) - 1) }

\* the results (err # nil, b.String()) of one Encode call
EncodeResults(v) ==
    { <<FALSE, EncodeJSON(v)>> }
    \cup (IF encodeFaults > 0 THEN { <<TRUE, b>> : b \in PartialWrites(v) } ELSE {})

(***************************************************************************)
(* encoding/json, the other way: the value a JSON text decodes to (what    *)
(* json.Decode yields for it; white space after the value is skipped).     *)
(***************************************************************************)
CharAt(s, p) == IF p >= 1 /\ p <= Len(s) THEN SubSeq(s, p, p) ELSE ""

IsDigit(c) == \E d \in 1..10 : DigitChars[d] = c

DigitOf(c) == (CHOOSE d \in 1..10 : DigitChars[d] = c) - 1

\* the digits from position p on: their value and the position after them
RECURSIVE ParseDigits(_, _, _)
ParseDigits(s, p, acc) ==
    IF IsDigit(CharAt(s, p))
    THEN ParseDigits(s, p + 1, acc * 10 + DigitOf(CharAt(s, p)))
    ELSE [n |-> acc, p |-> p]

\* a number with at most one digit after the point
ParseNumber(s, p) ==
    LET neg   == CharAt(s, p) = "-"
        whole == ParseDigits(s, IF neg THEN p + 1 ELSE p, 0)
        frac  == CharAt(s, whole.p) = "."
        mag   == whole.n * 10 + (IF frac THEN DigitOf(CharAt(s, whole.p + 1)) ELSE 0)
    IN  [v |-> Number(IF neg THEN -mag ELSE mag),
         p |-> IF frac THEN whole.p + 2 ELSE whole.p]

\* the characters of a string literal from position p (after the opening
\* quote) to the closing quote, a backslash taking the next character as is
RECURSIVE ParseChars(_, _, _)
ParseChars(s, p, acc) ==
    LET c == CharAt(s, p) IN
    IF c = "\"" \/ c = "" THEN [str |-> acc, p |-> p + 1]
    ELSE IF c = "\\" THEN ParseChars(s, p + 2, acc \o CharAt(s, p + 1))
    ELSE ParseChars(s, p + 1, acc \o c)

NoMembers == [k \in {} |-> Null]

RECURSIVE ParseValue(_, _)
RECURSIVE ParseElems(_, _, _)
RECURSIVE ParseMembers(_, _, _)

ParseValue(s, p) ==
    LET c == CharAt(s, p) IN
    CASE c = "n"  -> [v |-> Null, p |-> p + 4]
      [] c = "t"  -> [v |-> Bool(TRUE), p |-> p + 4]
      [] c = "f"  -> [v |-> Bool(FALSE), p |-> p + 5]
      [] c = "\"" -> LET r == ParseChars(s, p + 1, "")
                     IN  [v |-> String(r.str), p |-> r.p]
      [] c = "["  -> IF CharAt(s, p + 1) = "]"
                     THEN [v |-> Array(<<>>), p |-> p + 2]
                     ELSE ParseElems(s, p + 1, <<>>)
      [] c = "{"  -> IF CharAt(s, p + 1) = "}"
                     THEN [v |-> Object(NoMembers), p |-> p + 2]
                     ELSE ParseMembers(s, p + 1, NoMembers)
      [] OTHER    -> ParseNumber(s, p)

ParseElems(s, p, acc) ==
    LET r == ParseValue(s, p) IN
    IF CharAt(s, r.p) = ","
    THEN ParseElems(s, r.p + 1, Append(acc, r.v))
    ELSE [v |-> Array(Append(acc, r.v)), p |-> r.p + 1]

ParseMembers(s, p, acc) ==
    LET key  == ParseChars(s, p + 1, "")
        r    == ParseValue(s, key.p + 1)
        acc2 == [k \in DOMAIN acc \cup {key.str} |->
                    IF k = key.str THEN r.v ELSE acc[k]]
    IN  IF CharAt(s, r.p) = ","
        THEN ParseMembers(s, r.p + 1, acc2)
        ELSE [v |-> Object(acc2), p |-> r.p + 1]

DecodeJSON(text) == ParseValue(text, 1).v

(***************************************************************************)
(* main()                                                                  *)
(***************************************************************************)
NoRow == [k \in {} |-> Null]

InitRun ==
    /\ pc = "flags"
    /\ databaseName \in {"", "db"}
    /\ tableName \in {"", "events"}
    /\ fileName \in {"", "in.json"}
    /\ ignoreErrors \in BOOLEAN
    /\ connAcquired = 0
    /\ connReleased = FALSE
    /\ fileAcquired = 0
    /\ fileReleased = FALSE
    /\ nRows = 0
    /\ schemaQueries = 0
    /\ cols = NoColumns
    /\ rowID = 0
    /\ row = NoRow
    /\ pending = {}
    /\ i = 0
    /\ valuePlaceholders = ""
    /\ fields = <<>>
    /\ vals = <<>>
    /\ q = ""
    /\ execLog = <<>>
    /\ errors = <<>>
    /\ totalInserted = 0
    /\ stdout = <<>>
    /\ log = ""
    /\ exitCode = 0

\* encoding/json returns an error only for values json.Decode never yields
\* (channels, functions, NaN, cycles): Encode of line 222 succeeds in every run
Init == InitRun /\ encodeFaults = 0

\* log.Fatal / log.Fatalf: the message, then os.Exit(1); deferred calls do not
\* run
Fatal(msg) ==
    /\ log' = msg
    /\ pc' = "exited"
    /\ exitCode' = 1
    /\ UNCHANGED resVars

\* lines 151, 155, 159: the message of the first missing required flag
MissingFlag ==
    IF databaseName = "" THEN "Please specify database name"
    ELSE IF tableName = "" THEN "Please specify table name"
    ELSE IF fileName = "" THEN "Please specify input file name"
    ELSE ""

\* lines 150-162
CheckFlags ==
    /\ pc = "flags"
    /\ IF MissingFlag # ""
       THEN Fatal(MissingFlag)
       ELSE pc' = "connect" /\ UNCHANGED <<log, exitCode, resVars>>
    /\ UNCHANGED <<flagVars, encodeFaults, nRows, schemaQueries, cols, rowID, rowVars,
                   runVars, stdout>>

\* lines 164-175
Connect ==
    /\ pc = "connect"
    /\ \E failed \in BOOLEAN :
          IF failed
          THEN Fatal("Failed to connect to db")
          ELSE /\ connAcquired' = connAcquired + 1
               /\ pc' = "open"
               /\ UNCHANGED <<log, exitCode, connReleased, fileAcquired, fileReleased>>
    /\ UNCHANGED <<flagVars, encodeFaults, nRows, schemaQueries, cols, rowID, rowVars,
                   runVars, stdout>>

\* lines 177-181
OpenFile ==
    /\ pc = "open"
    /\ \E failed \in BOOLEAN :
          IF failed
          THEN Fatal("Failed to open input file for reading")
          ELSE /\ fileAcquired' = fileAcquired + 1
               /\ pc' = "decode"
               /\ UNCHANGED <<log, exitCode, connAcquired, connReleased, fileReleased>>
    /\ UNCHANGED <<flagVars, encodeFaults, nRows, schemaQueries, cols, rowID, rowVars,
                   runVars, stdout>>

\* the length check left out
IsEmptyInputNever(n) == FALSE

\* line 187
IsEmptyInput(n) == n = 0

\* lines 182-190: decode the file into inputData, refuse an empty array.  The
\* elements of inputData are read once each, by the range loop (NextRow).
Decode ==
    /\ pc = "decode"
    /\ \E failed \in BOOLEAN, n \in 0..MaxRows :
          IF failed
          THEN Fatal("Failed to decode input data") /\ UNCHANGED nRows
          ELSE /\ nRows' = n
               /\ IF IsEmptyInput(n)
                  THEN Fatal("No rows in the input file")
                  ELSE pc' = "columns" /\ UNCHANGED <<log, exitCode, resVars>>
    /\ UNCHANGED <<flagVars, encodeFaults, schemaQueries, cols, rowID, rowVars, runVars,
                   stdout>>

\* lines 191-194 and 256-277
columns ==
    /\ pc = "columns"
    /\ schemaQueries' = schemaQueries + 1
    /\ \E outcome \in {"query failed", "scan failed", "ok"}, c \in Schemas :
          IF outcome = "ok"
          THEN /\ cols' = c
               /\ pc' = "rows"
               /\ UNCHANGED <<log, exitCode, resVars>>
          ELSE Fatal("Failed to read table structure: " \o outcome) /\ UNCHANGED cols
    /\ UNCHANGED <<flagVars, encodeFaults, nRows, rowID, rowVars, runVars, stdout>>

\* line 198, lines 199-202: the head of the range loop over inputData
NextRow ==
    /\ pc = "rows"
    /\ IF rowID < nRows
       THEN /\ \E r \in Records :
                 /\ row' = r
                 /\ pending' = DOMAIN r
            /\ i' = 0
            /\ valuePlaceholders' = ""
            /\ fields' = <<>>
            /\ vals' = <<>>
            /\ q' = ""
            /\ pc' = "keys"
       ELSE /\ pc' = "summary"
            /\ UNCHANGED rowVars
    /\ UNCHANGED <<flagVars, encodeFaults, resVars, nRows, schemaQueries, cols, rowID,
                   runVars, stdout, log, exitCode>>

\* no schema filter, as in the earlier revision of lines 76-98
IsColumnAlways(k) == TRUE

\* line 204: is key k a column of the table
IsColumn(k) == k \in DOMAIN cols

\* cols[k]: a Go map yields "" for a key it does not hold
ColumnType(k) == IF k \in DOMAIN cols THEN cols[k] ELSE ""

\* lines 214-232: the value bound for v in a column of type colType; buffer is
\* b.String() after the Encode call of line 222 (read for an object only)
BoundValue(v, colType, buffer) ==
    IF v.kind = "null" THEN v
    ELSE IF v.kind = "number" /\ Contains(colType, "timestamp")
         THEN TimeUnix(Int64OfFloat(v.tenths))
    ELSE IF v.kind = "object" THEN String(buffer)
    ELSE v

\* the separator test off by one
AddPlaceholderCommaFirst(text, n) ==
    (IF n > 0 THEN text \o "," ELSE text) \o "$" \o Itoa(n)

\* lines 207-211: the placeholder text after the n-th kept key
AddPlaceholder(text, n) ==
    (IF n > 1 THEN text \o "," ELSE text) \o "$" \o Itoa(n)

\* the ignore-errors flag not consulted
EncodeFailureAlwaysFatal(failed) == failed

\* lines 223-226: does a failed Encode end the process
EncodeFailureIsFatal(failed) == failed /\ ~ignoreErrors

\* lines 203-234: one iteration of the range loop over the keys of row; Go
\* visits the keys of a map in no fixed order
VisitKey ==
    /\ pc = "keys"
    /\ \E k \in pending :
          /\ pending' = pending \ {k}
          /\ IF ~IsColumn(k)
             THEN UNCHANGED <<i, valuePlaceholders, fields, vals, errors, pc, log,
                              exitCode, encodeFaults>>
             ELSE LET v == row[k] IN
                  /\ i' = i + 1
                  /\ valuePlaceholders' = AddPlaceholder(valuePlaceholders, i + 1)
                  /\ fields' = Append(fields, QuoteIdent(k))
                  /\ IF v.kind = "object"
                     THEN \E res \in EncodeResults(v) :
                             /\ encodeFaults' = IF res[1] THEN encodeFaults - 1
                                                ELSE encodeFaults
                             /\ IF EncodeFailureIsFatal(res[1])
                                THEN /\ log' = "Failed to encode json field " \o k
                                     /\ pc' = "exited"
                                     /\ exitCode' = 1
                                     /\ UNCHANGED <<vals, errors>>
                                ELSE /\ errors' = IF res[1]
                                                  THEN Append(errors, [kind |-> "encode",
                                                                       field |-> k])
                                                  ELSE errors
                                     /\ vals' = Append(vals, BoundValue(v, ColumnType(k),
                                                                        res[2]))
                                     /\ UNCHANGED <<pc, log, exitCode>>
                     ELSE /\ vals' = Append(vals, BoundValue(v, ColumnType(k), ""))
                          /\ UNCHANGED <<errors, pc, log, exitCode, encodeFaults>>
    /\ UNCHANGED <<flagVars, resVars, nRows, schemaQueries, cols, rowID, row, q,
                   execLog, totalInserted, stdout>>

\* a statement without column and value lists for a row that keeps no key
InsertStatementDefaultValues(table, columnList, placeholders) ==
    IF Len(columnList) = 0
    THEN "INSERT INTO " \o table \o " DEFAULT VALUES"
    ELSE "INSERT INTO " \o table \o " (" \o Join(columnList, ",") \o ") VALUES ("
         \o placeholders \o ")"

\* line 235
InsertStatement(table, columnList, placeholders) ==
    "INSERT INTO " \o table \o " (" \o Join(columnList, ",") \o ") VALUES ("
    \o placeholders \o ")"

\* line 235, once the range loop over the keys has ended
BuildQuery ==
    /\ pc = "keys"
    /\ pending = {}
    /\ q' = InsertStatement(tableName, fields, valuePlaceholders)
    /\ pc' = "exec"
    /\ UNCHANGED <<flagVars, encodeFaults, resVars, nRows, schemaQueries, cols, rowID,
                   row, pending, i, valuePlaceholders, fields, vals, runVars, stdout,
                   log, exitCode>>

\* a failed statement never ends the process
InsertFailureNeverFatal(failed) == FALSE

\* lines 237-241: does a failed statement end the process
InsertFailureIsFatal(failed) == failed /\ ~ignoreErrors

\* counting records instead of affected rows
AddRowsCountsRecords(total, n) == total + 1

\* line 244: the sum after a statement that affected n rows
AddRows(total, n) == total + n

\* lines 238, 224: the text of a recorded error (the database error, the
\* statement and the values of an insertion error are left out)
ErrorText(e) ==
    IF e.kind = "insert"
    THEN "Failed to insert row #" \o Itoa(e.rowID)
    ELSE "Failed to encode json field " \o e.field

\* lines 236-245: pg.Exec and the handling of its result.  A failed statement
\* yields the empty command tag, whose RowsAffected() is 0; a statement that
\* ran affected 0 or 1 rows.  The variables of the iteration go out of scope.
Exec ==
    /\ pc = "exec"
    /\ \E failed \in BOOLEAN, affected \in {0, 1} :
          /\ failed => affected = 0
          /\ execLog' = Append(execLog, [rowID |-> rowID, failed |-> failed,
                                         affected |-> affected])
          /\ IF InsertFailureIsFatal(failed)
             THEN /\ Fatal(ErrorText([kind |-> "insert", rowID |-> rowID]))
                  /\ UNCHANGED <<errors, totalInserted, rowID, rowVars>>
             ELSE /\ errors' = IF failed
                               THEN Append(errors, [kind |-> "insert", rowID |-> rowID])
                               ELSE errors
                  /\ totalInserted' = AddRows(totalInserted, affected)
                  /\ rowID' = rowID + 1
                  /\ row' = NoRow
                  /\ pending' = {}
                  /\ i' = 0
                  /\ valuePlaceholders' = ""
                  /\ fields' = <<>>
                  /\ vals' = <<>>
                  /\ q' = ""
                  /\ pc' = "rows"
                  /\ UNCHANGED <<log, exitCode, resVars>>
    /\ UNCHANGED <<flagVars, encodeFaults, nRows, schemaQueries, cols, stdout>>

\* line 246
SummaryLine(total, table) ==
    "Inserted " \o Itoa(total) \o " rows into " \o table \o "\n"

\* lines 247-251
ErrorReport(errs) ==
    <<"Errors occured during execution (" \o Itoa(Len(errs)) \o "):\n">>
    \o [j \in 1..Len(errs) |-> "#" \o Itoa(j - 1) \o "\n" \o ErrorText(errs[j]) \o "\n"]

\* the error list not consulted
ExitStatusAlwaysZero(errs) == 0

\* lines 247, 252: the exit status once the summary is printed
ExitStatus(errs) == IF Len(errs) > 0 THEN 1 ELSE 0

\* lines 246-254: the summary; os.Exit(1) runs no deferred call, the return
\* from main runs file.Close() and then pg.Close()
Summary ==
    /\ pc = "summary"
    /\ pc' = "exited"
    /\ exitCode' = ExitStatus(errors)
    /\ IF Len(errors) > 0
       THEN /\ stdout' = Append(stdout, SummaryLine(totalInserted, tableName))
                         \o ErrorReport(errors)
            /\ UNCHANGED resVars
       ELSE /\ stdout' = Append(stdout, SummaryLine(totalInserted, tableName))
            /\ fileReleased' = TRUE
            /\ connReleased' = TRUE
            /\ UNCHANGED <<connAcquired, fileAcquired>>
    /\ UNCHANGED <<flagVars, encodeFaults, nRows, schemaQueries, cols, rowID, rowVars,
                   runVars, log>>

Next ==
    \/ CheckFlags
    \/ Connect
    \/ OpenFile
    \/ Decode
    \/ columns
    \/ NextRow
    \/ VisitKey
    \/ BuildQuery
    \/ Exec
    \/ Summary

Spec == Init /\ [][Next]_vars

\* the same program with an encoder that returns an error up to
\* MaxEncodeFaults times: the branch of lines 223-229
InitEncodeFail == InitRun /\ encodeFaults = MaxEncodeFaults

SpecEncodeFail == InitEncodeFail /\ [][Next]_vars

(***************************************************************************)
(* Properties.                                                             *)
(***************************************************************************)
FailedExecs == { j \in 1..Len(execLog) : execLog[j].failed }

\* the summary line was printed: every record has been processed
SummaryPrinted == Len(stdout) > 0

\* C1: with ignore-errors disabled, the first failed INSERT ends the process
\* at once with a non-zero status: the failed INSERT is the last one executed
\* and no summary line is printed.
C1_FatalInsertStopsRun ==
    (~ignoreErrors /\ FailedExecs # {}) =>
        /\ pc = "exited"
        /\ exitCode # 0
        /\ FailedExecs = {Len(execLog)}
        /\ execLog[Len(execLog)].rowID = Len(execLog) - 1
        /\ stdout = <<>>

\* a run without ignore-errors whose first record fails while another follows
C1_Witness ==
    /\ ~ignoreErrors
    /\ nRows = 2
    /\ Len(execLog) = 1
    /\ execLog[1].failed
    /\ pc = "exited"

\* C2: with ignore-errors enabled an INSERT is attempted for each of the N
\* records, in input order, whatever failed before; when k of them fail and
\* the others affect one row each, the reported total is N-k and exactly k
\* errors are listed (exit status 1 as soon as k >= 1).
C2_IgnoreErrorsTotals ==
    (ignoreErrors /\ pc = "exited" /\ SummaryPrinted) =>
        LET k == Cardinality(FailedExecs) IN
        /\ Len(execLog) = nRows
        /\ \A j \in 1..Len(execLog) : execLog[j].rowID = j - 1
        /\ (\A j \in 1..Len(execLog) : ~execLog[j].failed => execLog[j].affected = 1) =>
              /\ totalInserted = nRows - k
              /\ stdout[1] = "Inserted " \o ToString(nRows - k) \o " rows into events\n"
              /\ Len(errors) = k
              /\ Len(stdout) = (IF k = 0 THEN 1 ELSE k + 2)
              /\ k >= 1 => exitCode = 1

\* the first of two records fails, the second is inserted all the same
C2_Witness ==
    /\ ignoreErrors
    /\ pc = "exited"
    /\ SummaryPrinted
    /\ nRows = 2
    /\ execLog[1].failed
    /\ ~execLog[2].failed
    /\ execLog[2].affected = 1

\* C3: once all records are processed the exit status is 0 exactly when the
\* error list is empty, and 1 otherwise; N records inserted with one affected
\* row each give a reported total of N and status 0.
C3_ExitStatus ==
    (pc = "exited" /\ SummaryPrinted) =>
        /\ exitCode = 0 <=> Len(errors) = 0
        /\ exitCode \in {0, 1}
        /\ (\A j \in 1..Len(execLog) : ~execLog[j].failed /\ execLog[j].affected = 1) =>
              /\ Len(execLog) = nRows
              /\ totalInserted = nRows
              /\ stdout = <<"Inserted " \o ToString(nRows) \o " rows into events\n">>
              /\ exitCode = 0

\* two records, both inserted with one row each, status 0
C3_Witness ==
    /\ pc = "exited"
    /\ SummaryPrinted
    /\ nRows = 2
    /\ Len(execLog) = 2
    /\ \A j \in 1..2 : ~execLog[j].failed /\ execLog[j].affected = 1
    /\ exitCode = 0

\* C6: the connection and the file are each acquired at most once and are
\* released on every exit path after their acquisition.
C6_ReleasedOnEveryExit ==
    /\ connAcquired <= 1
    /\ fileAcquired <= 1
    /\ pc = "exited" =>
          /\ connAcquired = 1 => connReleased
          /\ fileAcquired = 1 => fileReleased

\* C7: an empty top-level array ends the process with a non-zero status
\* before the schema query is issued and before any INSERT.
C7_EmptyInputIsFatal ==
    (nRows = 0 /\ pc \notin {"flags", "connect", "open", "decode"}) =>
        /\ pc = "exited"
        /\ exitCode # 0
        /\ schemaQueries = 0
        /\ execLog = <<>>

\* the file was opened and decoded to an empty array
C7_Witness ==
    /\ pc = "exited"
    /\ fileAcquired = 1
    /\ log = "No rows in the input file"

\* the keys of the record that are columns of the table
KeptKeys == DOMAIN row \cap DOMAIN cols

\* the number of places of s that hold the character c
CountChar(s, c) == Cardinality({ p \in 1..Len(s) : SubSeq(s, p, p) = c })

\* C4: the column names of the statement are exactly the keys of the record
\* that are columns of the table, each once; a key that is no column appears
\* neither in the statement nor among the parameters; there are as many
\* parameters as kept keys.
C4_ColumnsAreKeptKeys ==
    pc = "exec" =>
        /\ Len(fields) = Cardinality(KeptKeys)
        /\ \A k \in KeptKeys :
              Cardinality({ j \in 1..Len(fields) : fields[j] = "\"" \o k \o "\"" }) = 1
        /\ \A k \in Keys : Contains(q, "\"" \o k \o "\"") <=> k \in KeptKeys
        /\ Len(vals) = Cardinality(KeptKeys)
        /\ CountChar(q, "$") = Cardinality(KeptKeys)

\* a statement for a record with two kept keys and one dropped key
C4_Witness ==
    /\ pc = "exec"
    /\ Cardinality(KeptKeys) = 2
    /\ Cardinality(DOMAIN row \ DOMAIN cols) = 1

\* the column types of the catalog that contain "timestamp"
TimestampTypes == {"timestamp without time zone", "timestamp with time zone"}

\* the key of the record quoted as field f
KeyOfField(f) == CHOOSE k \in DOMAIN row : f = "\"" \o k \o "\""

\* C5: a number in a column whose type contains "timestamp" is bound as the
\* time at its whole seconds since the epoch, the fraction cut off; an object
\* is bound as its JSON text whatever the column type; any other value is
\* bound unchanged.
C5_ValueConversion ==
    pc = "exec" =>
        \A j \in 1..Len(vals) :
            LET k == KeyOfField(fields[j])
                v == row[k]
                b == vals[j]
            IN  IF v.kind = "number" /\ cols[k] \in TimestampTypes
                THEN /\ b.kind = "time"
                     /\ b.nsec = 0
                     /\ v.tenths >= 0 => (10 * b.sec <= v.tenths /\ v.tenths < 10 * b.sec + 10)
                     /\ v.tenths < 0  => (10 * b.sec - 10 < v.tenths /\ v.tenths <= 10 * b.sec)
                ELSE IF v.kind = "object"
                THEN /\ b.kind = "string"
                     /\ DecodeJSON(b.s) = v
                ELSE b = v

\* a statement binding -1.5 to a timestamp column, an object to a jsonb
\* column and 1.5 to an integer column
C5_Witness ==
    /\ pc = "exec"
    /\ cols = [id |-> "integer", ts |-> "timestamp without time zone", data |-> "jsonb"]
    /\ row = [id |-> Number(15), ts |-> Number(-15), data |-> SampleObject]
    /\ Len(vals) = 3
    /\ \E j \in 1..3 : vals[j] = Time(-1, 0)
    /\ \E j \in 1..3 : vals[j] = String("{\"a\":-1.5,\"b\":\"x\\\"y\"}\n")

\* "$1,$2,...,$n"
RECURSIVE PlaceholderList(_)
PlaceholderList(n) ==
    IF n = 0 THEN ""
    ELSE IF n = 1 THEN "$1"
    ELSE PlaceholderList(n - 1) \o ",$" \o ToString(n)

\* C9: a record with k kept keys yields the placeholders $1,...,$k in that
\* order, without a gap for a skipped key, and the j-th column name and the
\* j-th parameter come from the same key.
C9_PlaceholdersAndPairs ==
    pc = "exec" =>
        LET k == Cardinality(KeptKeys) IN
        /\ valuePlaceholders = PlaceholderList(k)
        /\ q = "INSERT INTO events (" \o Join(fields, ",") \o ") VALUES ("
               \o PlaceholderList(k) \o ")"
        /\ Len(fields) = k
        /\ Len(vals) = k
        /\ \A j \in 1..k :
              \E key \in KeptKeys :
                  /\ fields[j] = "\"" \o key \o "\""
                  /\ vals[j] = BoundValue(row[key], cols[key], EncodeJSON(row[key]))

\* two kept keys with different values after a skipped key
C9_Witness ==
    /\ pc = "exec"
    /\ Cardinality(KeptKeys) = 2
    /\ "id" \in DOMAIN row \ DOMAIN cols
    /\ valuePlaceholders = "$1,$2"
    /\ vals[1] # vals[2]

\* C10: one INSERT is executed per record processed, also for a record none
\* of whose keys is a column: its statement has an empty column list, an
\* empty placeholder list and no parameter, and its failure is handled like
\* any other (fatal unless ignore-errors is set).
C10_OneInsertPerRecord ==
    /\ \A j \in 1..Len(execLog) : execLog[j].rowID = j - 1
    /\ pc \in {"rows", "keys", "exec", "summary"} => Len(execLog) = rowID
    /\ (pc = "exited" /\ SummaryPrinted) => Len(execLog) = nRows
    /\ (pc = "exec" /\ KeptKeys = {}) =>
          /\ q = "INSERT INTO events () VALUES ()"
          /\ fields = <<>>
          /\ valuePlaceholders = ""
          /\ vals = <<>>
    /\ \A j \in FailedExecs :
          IF ignoreErrors
          THEN \E e \in 1..Len(errors) : errors[e] = [kind |-> "insert", rowID |-> j - 1]
          ELSE /\ pc = "exited"
               /\ exitCode = 1
               /\ j = Len(execLog)
               /\ j = rowID + 1

\* the statement of a record with keys, none of them a column, has failed and
\* ended the process
C10_Witness ==
    /\ ~ignoreErrors
    /\ pc = "exited"
    /\ Len(execLog) = 2
    /\ execLog[2].failed
    /\ DOMAIN row # {}
    /\ KeptKeys = {}
    /\ q = "INSERT INTO events () VALUES ()"

IsProperPrefix(b, text) == Len(b) < Len(text) /\ SubSeq(text, 1, Len(b)) = b

\* the Encode call for the j-th kept key of the record returned an error: the
\* value bound is not the JSON text of the object
EncodeFailedAt(j) ==
    /\ row[KeyOfField(fields[j])].kind = "object"
    /\ vals[j] # String(EncodeJSON(row[KeyOfField(fields[j])]))

EncodeErrors == { e \in 1..Len(errors) : errors[e].kind = "encode" }

\* C8: when the JSON serialization of an object field fails, with
\* ignore-errors an error naming the field is appended to the error list, the
\* field stays in the column list with a parameter bound from the (partial)
\* buffer and the INSERT of the row is executed; without ignore-errors the
\* process ends before the INSERT of that row.
C8_EncodeFailure ==
    /\ pc \in {"keys", "exec"} =>
          \A j \in 1..Len(vals) :
              EncodeFailedAt(j) =>
                  /\ ignoreErrors
                  /\ \E e \in EncodeErrors : errors[e].field = KeyOfField(fields[j])
                  /\ vals[j].kind = "string"
                  /\ IsProperPrefix(vals[j].s, EncodeJSON(row[KeyOfField(fields[j])]))
                  /\ pc = "exec" => Contains(q, "\"" \o KeyOfField(fields[j]) \o "\"")
    /\ ignoreErrors =>
          /\ Cardinality(EncodeErrors) = MaxEncodeFaults - encodeFaults
          /\ pc \in {"rows", "keys", "exec", "summary"} => Len(execLog) = rowID
          /\ (pc = "exited" /\ SummaryPrinted) => Len(execLog) = nRows
    /\ (~ignoreErrors /\ encodeFaults < MaxEncodeFaults) =>
          /\ pc = "exited"
          /\ exitCode # 0
          /\ encodeFaults = MaxEncodeFaults - 1
          /\ Len(execLog) = rowID
          /\ errors = <<>>
          /\ stdout = <<>>
          /\ \E k \in DOMAIN row :
                /\ row[k].kind = "object"
                /\ log = "Failed to encode json field " \o k

\* the encoding of field data failed in the first record, and the INSERT of
\* that record was executed
C8_Witness ==
    /\ ignoreErrors
    /\ pc = "rows"
    /\ rowID = 1
    /\ Len(execLog) = 1
    /\ ~execLog[1].failed
    /\ errors = <<[kind |-> "encode", field |-> "data"]>>

====
